---------------------------- MODULE Spec2Model ----------------------------
(***************************************************************************)
(* A model of the ai-explainer service (src/src/ai_explainer).             *)
(*                                                                         *)
(* The service fetches a stored phishing-analysis record, turns it into    *)
(* an EvidenceBundle (evidence.py) and streams meta, evidence, delta*,     *)
(* done events while the generation engine produces text (main.py,         *)
(* llm_explain.py).                                                        *)
(*                                                                         *)
(* The handlers are modelled as FastAPI runs them for an authenticated     *)
(* caller: the require_firebase_user dependency (auth.py) rejects every    *)
(* other call before a handler body starts.                                *)
(*                                                                         *)
(* Python values are tagged records, so that values of different Python    *)
(* types can be compared:                                                  *)
(*   None  [t |-> "none"]          bool  [t |-> "bool", b |-> TRUE]        *)
(*   int   [t |-> "int", i |-> 3]  float [t |-> "float", x10 |-> 35]       *)
(*   str   [t |-> "str", s |-> ""] list  [t |-> "list", l |-> << >>]       *)
(*   dict  [t |-> "dict", d |-> [k |-> v]]                                 *)
(* A float is held in tenths (x10 = 35 is 3.5).  An exception raised while *)
(* a value is computed is the value [t |-> "raise"], which every operator  *)
(* passes on.                                                              *)
(***************************************************************************)
EXTENDS Integers, Sequences, FiniteSets, TLC

-----------------------------------------------------------------------------
(* Python values *)

None == [t |-> "none"]

Raise == [t |-> "raise"]

PyBool(b) == [t |-> "bool", b |-> b]

PyInt(i) == [t |-> "int", i |-> i]

PyFloat(x10) == [t |-> "float", x10 |-> x10]

PyStr(s) == [t |-> "str", s |-> s]

PyList(l) == [t |-> "list", l |-> l]

PyDict(d) == [t |-> "dict", d |-> d]

EmptyDict == PyDict(<< >>)

EmptyList == PyList(<< >>)

IsRaise(v) == v.t = "raise"

\* bool(v): Python truthiness
Truthy(v) ==
    CASE v.t = "none"  -> FALSE
      [] v.t = "bool"  -> v.b
      [] v.t = "int"   -> v.i # 0
      [] v.t = "float" -> v.x10 # 0
      [] v.t = "str"   -> v.s # ""
      [] v.t = "list"  -> v.l # << >>
      [] v.t = "dict"  -> DOMAIN v.d # {}
      [] OTHER         -> FALSE

\* v.get(k): only a dict has it; any other value raises AttributeError
Get(v, k) ==
    IF v.t = "dict"
    THEN IF k \in DOMAIN v.d THEN v.d[k] ELSE None
    ELSE Raise

\* v or dflt
Or(v, dflt) ==
    IF IsRaise(v) THEN v
    ELSE IF Truthy(v) THEN v ELSE dflt

Digits == <<"0", "1", "2", "3", "4", "5", "6", "7", "8", "9">>

IsDigit(c) == \E k \in 1..10 : Digits[k] = c

DigitVal(c) == (CHOOSE k \in 1..10 : Digits[k] = c) - 1

RECURSIVE NatToStr(_)
NatToStr(n) ==
    IF n < 10 THEN Digits[n + 1]
    ELSE NatToStr(n \div 10) \o Digits[(n % 10) + 1]

\* str(i) of an int
IntToStr(i) == IF i < 0 THEN "-" \o NatToStr(-i) ELSE NatToStr(i)

Abs(i) == IF i < 0 THEN -i ELSE i

\* int(x) of a float held in tenths: truncation toward zero
TruncTenths(x10) == IF x10 < 0 THEN -((-x10) \div 10) ELSE x10 \div 10

\* str(x) of a float held in tenths (repr keeps one decimal: 87.0, -0.5)
FloatToStr(x10) ==
    (IF x10 < 0 THEN "-" ELSE "") \o NatToStr(Abs(x10) \div 10)
        \o "." \o Digits[(Abs(x10) % 10) + 1]

\* str(v), as a string of the model.  The repr of a container is not
\* spelled out: none of the code's decisions reads it.
StrOf(v) ==
    CASE v.t = "none"  -> "None"
      [] v.t = "bool"  -> IF v.b THEN "True" ELSE "False"
      [] v.t = "int"   -> IntToStr(v.i)
      [] v.t = "float" -> FloatToStr(v.x10)
      [] v.t = "str"   -> v.s
      [] v.t = "list"  -> "[...]"
      [] v.t = "dict"  -> "{...}"
      [] OTHER         -> ""

\* str(v) as a Python value, passing an exception on
Str(v) == IF IsRaise(v) THEN v ELSE PyStr(StrOf(v))

RECURSIVE AllDigits(_)
AllDigits(s) ==
    IF s = "" THEN TRUE
    ELSE IsDigit(SubSeq(s, 1, 1)) /\ AllDigits(Tail(s))

RECURSIVE DigitsVal(_, _)
DigitsVal(s, acc) ==
    IF s = "" THEN acc
    ELSE DigitsVal(Tail(s), 10 * acc + DigitVal(SubSeq(s, 1, 1)))

\* position of the first "." of s, 0 if there is none
RECURSIVE DotAt(_, _)
DotAt(s, k) ==
    IF k > Len(s) THEN 0
    ELSE IF SubSeq(s, k, k) = "." THEN k ELSE DotAt(s, k + 1)

\* float(s) of an unsigned decimal literal "ddd" or "ddd.d", in tenths;
\* -1 stands for ValueError (any other text the model uses)
ParseUnsigned(s) ==
    LET dot == DotAt(s, 1) IN
    IF s = "" THEN -1
    ELSE IF dot = 0
         THEN IF AllDigits(s) THEN 10 * DigitsVal(s, 0) ELSE -1
         ELSE LET ip == SubSeq(s, 1, dot - 1)
                  fp == SubSeq(s, dot + 1, Len(s))
              IN IF ip # "" /\ AllDigits(ip) /\ Len(fp) = 1 /\ AllDigits(fp)
                 THEN 10 * DigitsVal(ip, 0) + DigitsVal(fp, 0)
                 ELSE -1

\* float(s) of a str: a decimal literal with an optional sign
ParseFloat(s) ==
    LET neg  == s # "" /\ SubSeq(s, 1, 1) = "-"
        body == IF neg THEN Tail(s) ELSE s
        mag  == ParseUnsigned(body)
    IN IF mag = -1 THEN Raise
       ELSE PyFloat(IF neg THEN -mag ELSE mag)

\* float(v): TypeError for None and containers, ValueError for other text
Float(v) ==
    CASE v.t = "bool"  -> PyFloat(IF v.b THEN 10 ELSE 0)
      [] v.t = "int"   -> PyFloat(10 * v.i)
      [] v.t = "float" -> v
      [] v.t = "str"   -> ParseFloat(v.s)
      [] OTHER         -> Raise

-----------------------------------------------------------------------------
(* evidence.py: the Evidence Extractor *)

Upper == <<"A", "B", "C", "D", "E", "F", "G", "H", "I", "J", "K", "L", "M",
           "N", "O", "P", "Q", "R", "S", "T", "U", "V", "W", "X", "Y", "Z">>

Lower == <<"a", "b", "c", "d", "e", "f", "g", "h", "i", "j", "k", "l", "m",
           "n", "o", "p", "q", "r", "s", "t", "u", "v", "w", "x", "y", "z">>

LowerChar(c) ==
    IF \E k \in 1..26 : Upper[k] = c
    THEN Lower[CHOOSE k \in 1..26 : Upper[k] = c]
    ELSE c

\* s.lower()
RECURSIVE LowerStr(_)
LowerStr(s) ==
    IF s = "" THEN ""
    ELSE LowerChar(SubSeq(s, 1, 1)) \o LowerStr(Tail(s))

\* s.endswith(suffix)
EndsWith(s, suffix) ==
    /\ Len(s) >= Len(suffix)
    /\ SubSeq(s, Len(s) - Len(suffix) + 1, Len(s)) = suffix

\* EvidenceItem(key, severity, message, ...); why_it_matters and user_action
\* are fixed per key and carried by name
EvidenceItem(key, severity, message) ==
    [key |-> key, severity |-> severity, message |-> message,
     why_it_matters |-> key \o ".why_it_matters",
     user_action |-> key \o ".user_action"]

\* isinstance(v, (int, float)): bool is a subclass of int
IsNumber(v) == v.t \in {"int", "float", "bool"}

\* the value of a number in tenths
Tenths(v) ==
    CASE v.t = "bool"  -> IF v.b THEN 10 ELSE 0
      [] v.t = "int"   -> 10 * v.i
      [] OTHER         -> v.x10

\* every rule reads its sub-object with .get, whatever the other rules
\* found: a sub-object that is truthy and not a dict raises AttributeError
RuleRaises(download, technical, behavioral, domain, cert) ==
    \/ download.t # "dict"
    \/ technical.t # "dict"
    \/ behavioral.t # "dict"
    \/ domain.t # "dict"
    \/ cert.t # "dict"

\* rule 1: download_apk
DownloadApkItems(download) ==
    LET filename == StrOf(Or(Get(download, "filename"), PyStr("")))
        is_apk   == EndsWith(LowerStr(filename), ".apk")
    IN IF Truthy(Get(download, "attempted")) /\ is_apk
       THEN << EvidenceItem("download_apk", "HIGH",
                 "APK download attempt detected: "
                    \o (IF filename # "" THEN filename ELSE "unknown")) >>
       ELSE << >>

\* CredentialItems with one test, and one item, per flag
CredentialItemsPerFlag(technical, behavioral) ==
    (IF Truthy(Get(technical, "credential_exfiltration"))
     THEN << EvidenceItem("credential_exfiltration", "HIGH",
               "Input is being sent to an external party.") >>
     ELSE << >>)
    \o (IF Truthy(Get(behavioral, "external_post_on_input"))
        THEN << EvidenceItem("credential_exfiltration", "HIGH",
                  "Input is being sent to an external party.") >>
        ELSE << >>)

\* rule 2: credential_exfiltration
CredentialItems(technical, behavioral) ==
    IF \/ Truthy(Get(technical, "credential_exfiltration"))
       \/ Truthy(Get(behavioral, "external_post_on_input"))
    THEN << EvidenceItem("credential_exfiltration", "HIGH",
              "Input is being sent to an external party.") >>
    ELSE << >>

\* rule 3: keystroke_capture
KeystrokeItems(behavioral) ==
    IF Truthy(Get(behavioral, "keystroke_capture"))
    THEN << EvidenceItem("keystroke_capture", "HIGH",
              "A script collecting key input was detected.") >>
    ELSE << >>

\* UiDeceptionItems reading the flag of the next rule
UiDeceptionItemsWrongFlag(technical) ==
    IF Truthy(Get(technical, "brand_impersonation"))
    THEN << EvidenceItem("ui_deception", "MEDIUM",
              "A fake UI appears to deceive the user.") >>
    ELSE << >>

\* rule 4: ui_deception
UiDeceptionItems(technical) ==
    IF Truthy(Get(technical, "ui_deception"))
    THEN << EvidenceItem("ui_deception", "MEDIUM",
              "A fake UI appears to deceive the user.") >>
    ELSE << >>

\* rule 5: brand_impersonation
BrandItems(technical) ==
    IF Truthy(Get(technical, "brand_impersonation"))
    THEN << EvidenceItem("brand_impersonation", "MEDIUM",
              "Brand or domain impersonation was attempted.") >>
    ELSE << >>

\* rule 6: new_domain
NewDomainItems(domain) ==
    LET age_days == Get(domain, "domain_age_days") IN
    IF IsNumber(age_days) /\ Tenths(age_days) <= 70
    THEN << EvidenceItem("new_domain", "MEDIUM",
              "The domain was created "
                 \o IntToStr(TruncTenths(Tenths(age_days)))
                 \o " days ago, very recently.") >>
    ELSE << >>

\* rule 7: cert_recent
CertItems(cert) ==
    IF Truthy(Get(cert, "suspicious"))
    THEN << EvidenceItem("cert_recent", "LOW",
              "The TLS certificate looks recently issued. (issuer="
                 \o StrOf(Or(Get(cert, "issuer"), PyStr("unknown")))
                 \o ")") >>
    ELSE << >>

\* _build_evidence_from_details(details): the list of items in rule order,
\* or Raise.  The caller passes a dict.
BuildEvidenceFromDetails(details) ==
    LET download   == Or(Get(details, "download_attempt"), EmptyDict)
        technical  == Or(Get(details, "technical_findings"), EmptyDict)
        behavioral == Or(Get(details, "behavioral_findings"), EmptyDict)
        domain     == Or(Get(details, "domain_analysis"), EmptyDict)
        cert       == Or(Get(details, "certificate_analysis"), EmptyDict)
    IN IF details.t # "dict"
          \/ RuleRaises(download, technical, behavioral, domain, cert)
       THEN Raise
       ELSE PyList(DownloadApkItems(download)
                   \o CredentialItems(technical, behavioral)
                   \o KeystrokeItems(behavioral)
                   \o UiDeceptionItems(technical)
                   \o BrandItems(technical)
                   \o NewDomainItems(domain)
                   \o CertItems(cert))

\* _parse_risk_score returning float(int(value)): the fraction is lost
ParseRiskScoreTrunc(value) ==
    IF IsRaise(value) THEN Raise
    ELSE IF value.t = "none" THEN PyFloat(0)
    ELSE IF IsRaise(Float(value)) THEN PyFloat(0)
    ELSE PyFloat(10 * TruncTenths(Float(value).x10))

\* _parse_risk_score(value)
ParseRiskScore(value) ==
    IF IsRaise(value) THEN Raise
    ELSE IF value.t = "none" THEN PyFloat(0)
    ELSE IF IsRaise(Float(value)) THEN PyFloat(0)
    ELSE Float(value)

\* pydantic's check of screenshot: Optional[Dict[str, str]]
ValidScreenshot(v) ==
    \/ v.t = "none"
    \/ /\ v.t = "dict"
       /\ \A k \in DOMAIN v.d : v.d[k].t = "str"

\* pydantic's check of redirect_chain: List[Dict[str, Any]]
ValidRedirectChain(v) ==
    /\ v.t = "list"
    /\ \A k \in 1..Len(v.l) : v.l[k].t = "dict"

\* pydantic's check of limitations: List[str]
ValidLimitations(v) ==
    /\ v.t = "list"
    /\ \A k \in 1..Len(v.l) : v.l[k].t = "str"

\* EvidenceBundle(...): the validated model, or Raise when an argument
\* raised while it was computed or pydantic rejects a field
EvidenceBundle(request_id, extracted_url, target_url, final_url, raw_text, risk_level, risk_score, screenshot, redirect_chain, evidence, coverage, limitations) ==
    IF \/ LET args == <<request_id, extracted_url, target_url, final_url,
                        raw_text, risk_level, risk_score, screenshot,
                        redirect_chain, evidence, coverage, limitations>>
          IN \E k \in 1..Len(args) : IsRaise(args[k])
       \/ ~ValidScreenshot(screenshot)
       \/ ~ValidRedirectChain(redirect_chain)
       \/ ~ValidLimitations(limitations)
    THEN Raise
    ELSE [t |-> "bundle",
          request_id |-> request_id.s,
          extracted_url |-> extracted_url.s,
          target_url |-> target_url.s,
          final_url |-> final_url.s,
          raw_text |-> raw_text.s,
          risk_level |-> risk_level.s,
          risk_score |-> risk_score,
          screenshot |-> screenshot,
          redirect_chain |-> redirect_chain.l,
          evidence |-> evidence.l,
          coverage |-> coverage.s,
          limitations |-> [k \in 1..Len(limitations.l) |-> limitations.l[k].s]]

\* build_evidence_bundle(log): the full analysis log shape
BuildEvidenceBundle(log) ==
    LET request_id     == Str(Or(Get(log, "request_id"), PyStr("unknown")))
        original_input == Or(Get(log, "original_input"), EmptyDict)
        extracted_url  == Str(Or(Get(original_input, "extracted_url"), PyStr("")))
        raw_text       == Str(Or(Get(original_input, "raw_text"), PyStr("")))
        summary        == Or(Get(log, "summary"), EmptyDict)
        risk_level     == Str(Or(Get(summary, "risk_level"), PyStr("UNKNOWN")))
        risk_score     == ParseRiskScore(Get(summary, "risk_score"))
        screenshot     == Get(log, "visual_snapshot_storage")
        result         == Or(Get(log, "result"), EmptyDict)
        redirect_chain == Or(Get(result, "redirect_chain"), EmptyList)
        confidence     == Or(Get(log, "confidence"), EmptyDict)
        coverage       == Str(Or(Get(confidence, "analysis_coverage"), PyStr("UNKNOWN")))
        limitations    == Or(Get(confidence, "limitations"), EmptyList)
        evidence       == BuildEvidenceFromDetails(result)
    IN EvidenceBundle(request_id, extracted_url, extracted_url, PyStr(""),
                      raw_text, risk_level, risk_score, screenshot,
                      redirect_chain, evidence, coverage, limitations)

\* build_evidence_bundle_from_details(result_id, payload): the persisted
\* record shape
BuildEvidenceBundleFromDetails(result_id, payload) ==
    LET summary        == Or(Get(payload, "summary"), EmptyDict)
        risk_level     == Str(Or(Get(summary, "risk_level"), PyStr("UNKNOWN")))
        risk_score     == ParseRiskScore(Get(summary, "risk_score"))
        target_url     == Str(Or(Get(payload, "target_url"), PyStr("")))
        final_url      == Str(Or(Get(payload, "final_url"), PyStr("")))
        extracted_url  == Or(target_url, final_url)
        screenshot     == IF payload.t # "dict" THEN Raise
                          ELSE IF Truthy(Get(payload, "screenshot"))
                          THEN Get(payload, "screenshot")
                          ELSE Get(payload, "visual_snapshot_storage")
        details        == Or(Get(payload, "details"), EmptyDict)
        redirect_chain == Or(Get(details, "redirect_chain"), EmptyList)
        evidence       == BuildEvidenceFromDetails(details)
        confidence     == Or(Get(payload, "confidence"), EmptyDict)
        coverage       == Str(Or(Get(confidence, "analysis_coverage"), PyStr("UNKNOWN")))
        limitations    == Or(Get(confidence, "limitations"), EmptyList)
    IN EvidenceBundle(PyStr(result_id), extracted_url, target_url, final_url,
                      PyStr(""), risk_level, risk_score, screenshot,
                      redirect_chain, evidence, coverage, limitations)

-----------------------------------------------------------------------------
(* mock_store.py: the built-in fixture *)

\* MOCK_LOGS["uuid"]
MockLog ==
    PyDict([
      request_id |-> PyStr("uuid"),
      user_id |-> PyStr("userid"),
      submitted_at |-> PyStr("2026-01-06T09:32:11Z"),
      original_input |-> PyDict([
          raw_text |-> PyStr("..."),
          extracted_url |-> PyStr("https://www.naver.com")]),
      summary |-> PyDict([
          risk_level |-> PyStr("HIGH"),
          risk_score |-> PyInt(87)]),
      visual_snapshot_storage |-> PyDict([
          provider |-> PyStr("s3"),
          bucket |-> PyStr("screenshots"),
          key |-> PyStr("snapshots/2026/01/abc123.png"),
          region |-> PyStr("ap-northeast-2")]),
      result |-> PyDict([
          redirect_chain |-> PyList(<<
              PyDict([type |-> PyStr("HTTP"), from |-> PyStr("http://bit.ly/xxx"),
                      to |-> PyStr("https://example.com"), status |-> PyInt(302)]),
              PyDict([type |-> PyStr("JS"), from |-> PyStr("https://example.com"),
                      to |-> PyStr("https://secure-login-example.net")]) >>),
          download_attempt |-> PyDict([
              attempted |-> PyBool(TRUE),
              mime_type |-> PyStr("application/vnd.android.package-archive"),
              filename |-> PyStr("SecurityUpdate.apk"),
              content_disposition |-> PyStr("attachment"),
              auto_triggered |-> PyBool(TRUE)]),
          technical_findings |-> PyDict([
              ui_deception |-> PyBool(TRUE),
              credential_exfiltration |-> PyBool(TRUE),
              brand_impersonation |-> PyBool(TRUE)]),
          behavioral_findings |-> PyDict([
              keystroke_capture |-> PyBool(TRUE),
              external_post_on_input |-> PyBool(TRUE),
              eval_usage_count |-> PyInt(12),
              tab_control_script |-> PyBool(TRUE)]),
          domain_analysis |-> PyDict([domain_age_days |-> PyInt(3)]),
          certificate_analysis |-> PyDict([
              issuer |-> PyStr("Let's Encrypt"),
              issued_days_ago |-> PyInt(2),
              domain_mismatch |-> PyBool(FALSE),
              suspicious |-> PyBool(TRUE)])]),
      confidence |-> PyDict([
          analysis_coverage |-> PyStr("PARTIAL"),
          limitations |-> PyList(<<PyStr("CAPTCHA"), PyStr("OBFUSCATION")>>)])])

\* GetMockLog over a store without the fixture
GetMockLogEmpty(request_id) == None

\* get_mock_log(request_id): MOCK_LOGS.get(request_id)
GetMockLog(request_id) == IF request_id = "uuid" THEN MockLog ELSE None

-----------------------------------------------------------------------------
(* llm_explain.py: the payload handed to the generation engine *)

\* the number of redirect hops sent to the engine: redirect_chain[:8]
MaxHops == 8

\* seq[-n:] in the place of seq[:n]: the last n entries
TakeLast(seq, n) ==
    SubSeq(seq, IF Len(seq) < n THEN 1 ELSE Len(seq) - n + 1, Len(seq))

\* seq[:n]
Take(seq, n) == SubSeq(seq, 1, IF Len(seq) < n THEN Len(seq) ELSE n)

\* one entry of payload["items"] of stream_explanation
LlmItem(bundle) ==
    [result_id |-> bundle.request_id,
     summary |-> [risk_level |-> bundle.risk_level,
                  risk_score |-> bundle.risk_score],
     target_url |-> IF bundle.target_url # "" THEN bundle.target_url
                    ELSE bundle.extracted_url,
     final_url |-> bundle.final_url,
     message |-> bundle.raw_text,
     details |-> [redirect_chain |-> Take(bundle.redirect_chain, MaxHops),
                  evidence |-> bundle.evidence],
     confidence |-> [analysis_coverage |-> bundle.coverage,
                     limitations |-> bundle.limitations],
     screenshot |-> bundle.screenshot]

\* payload of stream_explanation(bundles)
LlmPayload(bundles) ==
    [items |-> [k \in 1..Len(bundles) |-> LlmItem(bundles[k])]]

-----------------------------------------------------------------------------
(* The stored records (models.py) and the requests explored *)

\* the longest result_ids list of a batch request
MaxIds == 2

\* the most chunks the generation engine produces for one call
MaxChunks == 2

\* the request slots: the connections the server is handling, numbered in
\* the order in which they are taken
Reqs == {1, 2}

\* the identifiers of persisted records; "uuid" is the fixture
PersistedIds == {"r1", "r2"}

ResultIds == PersistedIds \cup {"uuid"}

\* the message of a request body: absent, empty, or an override
Messages == {None, PyStr(""), PyStr("hi")}

\* the content of one chunk of llm.astream (a chunk may be empty)
ChunkContents == {"", "a", "b"}

\* the longest items list of a multi-link message request
MaxItems == 2

\* the message of a message request: a str, which may be empty
MessageTexts == {"", "hi"}

\* MessageSafetyMultiItem values; safe_browsing_result defaults to ""
MultiItems ==
    { [link |-> "http://x.example", safe_browsing_result |-> ""],
      [link |-> "http://y.example", safe_browsing_result |-> "SAFE"] }

\* items of a multi-link message request: every list of at most n items
RECURSIVE ItemLists(_)
ItemLists(n) ==
    IF n = 0 THEN { << >> }
    ELSE ItemLists(n - 1)
         \cup { Append(l, item) :
                  l \in { x \in ItemLists(n - 1) : Len(x) = n - 1 },
                  item \in MultiItems }

\* a row of analysis_results (AnalysisResult)
Row(status, details, llm_summary, message_text) ==
    [t |-> "row", status |-> status, details |-> details,
     llm_summary |-> llm_summary, message_text |-> message_text]

\* what db.get returns for an identifier with no row
NoRow == None

DetailsLow ==
    PyDict([
      summary |-> PyDict([risk_level |-> PyStr("LOW"), risk_score |-> PyInt(12)]),
      target_url |-> PyStr("http://a.example"),
      final_url |-> PyStr("http://b.example"),
      details |-> PyDict([
          redirect_chain |-> PyList(<<
              PyDict([type |-> PyStr("HTTP"), from |-> PyStr("http://a.example"),
                      to |-> PyStr("http://b.example")]) >>),
          technical_findings |-> PyDict([ui_deception |-> PyBool(TRUE)])]),
      confidence |-> PyDict([analysis_coverage |-> PyStr("ALL")])])

DetailsMedium ==
    PyDict([
      summary |-> PyDict([risk_level |-> PyStr("MEDIUM"),
                          risk_score |-> PyFloat(505)]),
      final_url |-> PyStr("http://c.example"),
      screenshot |-> PyDict([key |-> PyStr("shot.png")]),
      details |-> PyDict([
          domain_analysis |-> PyDict([domain_age_days |-> PyFloat(25)])])])

\* a record whose summary has no risk_level and a score that is not a number
DetailsLoose ==
    PyDict([
      summary |-> PyDict([risk_score |-> PyStr("n/a")]),
      target_url |-> PyStr("http://d.example")])

\* a record whose summary holds a number for the level and text for the score
DetailsText ==
    PyDict([
      summary |-> PyDict([risk_level |-> PyInt(2),
                          risk_score |-> PyStr("87.5")]),
      target_url |-> PyStr("http://f.example")])

\* a record whose summary is a string, not an object
DetailsBroken ==
    PyDict([
      summary |-> PyStr("HIGH"),
      target_url |-> PyStr("http://e.example")])

\* the rows record r1 may hold
RowsR1 ==
    { NoRow,
      Row(PyStr("FAILED"), None, None, None),
      Row(PyStr("PENDING"), EmptyDict, None, None),
      Row(PyStr("DONE"), DetailsLow, None, None),
      Row(PyStr("DONE"), DetailsLow, PyStr("cached explanation"), PyStr("sms")),
      Row(None, DetailsLoose, None, PyStr("")),
      Row(PyStr("DONE"), DetailsText, None, None),
      Row(PyStr("DONE"), DetailsBroken, None, None) }

\* the rows record r2 may hold
RowsR2 ==
    { Row(PyStr("QUEUED"), DetailsMedium, None, None) }

\* result_ids of a batch request: every list of at most MaxIds identifiers
RECURSIVE IdLists(_)
IdLists(n) ==
    IF n = 0 THEN { << >> }
    ELSE IdLists(n - 1)
         \cup { Append(l, id) : l \in { x \in IdLists(n - 1) : Len(x) = n - 1 },
                                id \in ResultIds }

VARIABLES
    db,        \* the analysis_results table: identifier -> row
    req,       \* per slot: the request being handled and its response so far
    maxLive    \* how many requests this run handles at the same time

vars == <<db, req, maxLive>>

\* a slot with no request.  kind, result_ids and message are the request;
\* idx is the loop position of the batch handler, row its local variable row
\* (what db.get returned last), unavailable whether db.get raised; bundles
\* and status_values are the handler's lists; code is the HTTP status of an
\* error response; events are the events sent so far; prompts are the
\* payloads handed to the generation engine, one per call; chunks counts
\* the chunks the engine has produced; writes counts the writes to the
\* record store the handler has attempted (db.get is the handlers' only use
\* of the session, so no step adds to it); gets are the identifiers the
\* handler has passed to db.get, in order; items are the items of a
\* multi-link message request; fragments are the contents of the chunks the
\* engine has produced, in order.
Idle ==
    [pc |-> "idle", kind |-> "none", result_ids |-> << >>, message |-> None,
     idx |-> 1, row |-> None, unavailable |-> FALSE,
     bundles |-> << >>, status_values |-> << >>, code |-> 0,
     events |-> << >>, prompts |-> << >>, chunks |-> 0, writes |-> 0,
     gets |-> << >>, items |-> << >>, fragments |-> << >>]

Live(q) == req[q].pc \notin {"idle"}

Init ==
    /\ db \in [PersistedIds -> RowsR1 \cup RowsR2]
    /\ db["r1"] \in RowsR1
    /\ db["r2"] \in RowsR2
    /\ req = [q \in Reqs |-> Idle]
    /\ maxLive = 1

-----------------------------------------------------------------------------
(* main.py: resolving a request *)

\* Resolves without the test of row.details
ResolvesAnyRow(row) == row.t = "row"

\* not (not row or not row.details): the record can be explained
Resolves(row) == row.t = "row" /\ Truthy(row.details)

\* WithMessage testing payload.message is not None in the place of its truth
WithMessageNotNone(bundle, message) ==
    IF message.t = "str" THEN [bundle EXCEPT !.raw_text = message.s] ELSE bundle

\* if payload.message: bundle.model_copy(update={"raw_text": payload.message})
WithMessage(bundle, message) ==
    IF Truthy(message) THEN [bundle EXCEPT !.raw_text = message.s] ELSE bundle

\* the bundle and status of one identifier: [found, bundle, status_value],
\* where bundle is Raise when the extractor raised
ResolveOne(result_id, rows) ==
    IF result_id = "uuid"
    THEN LET log == GetMockLog(result_id) IN
         IF ~Truthy(log)
         THEN [found |-> FALSE, bundle |-> None, status_value |-> None]
         ELSE [found |-> TRUE, bundle |-> BuildEvidenceBundle(log),
               status_value |-> Get(log, "status")]
    ELSE LET row == rows[result_id] IN
         IF ~Resolves(row)
         THEN [found |-> FALSE, bundle |-> None, status_value |-> None]
         ELSE [found |-> TRUE,
               bundle |-> BuildEvidenceBundleFromDetails(result_id, row.details),
               status_value |-> row.status]

\* a request takes the first free slot, while the run handles fewer than
\* maxLive requests
CanStart(q) ==
    /\ req[q].pc = "idle"
    /\ \A p \in Reqs : p < q => Live(p)
    /\ Cardinality({p \in Reqs : Live(p)}) < maxLive

\* the response of a handler that raised HTTPException(status_code)
Rejected(r, status_code) == [r EXCEPT !.pc = "error", !.code = status_code]

\* the response of a handler that raised any other exception
Crashed(r) == [r EXCEPT !.pc = "error", !.code = 500]

\* the response when db.get raised
Unavailable(r) == [Crashed(r) EXCEPT !.unavailable = TRUE]

\* the handler has called db.get(AnalysisResult, result_id)
Got(r, result_id) == [r EXCEPT !.gets = Append(r.gets, result_id)]

\* Fetched with db.get called for the fixture identifier too
FetchedAlways(r, result_id, rows) ==
    [Got(r, result_id) EXCEPT
        !.row = IF result_id \in DOMAIN rows THEN rows[result_id] ELSE NoRow]

\* the handler's state after row = await db.get(AnalysisResult, result_id),
\* which the branch of the fixture identifier does not reach
Fetched(r, result_id, rows) ==
    IF result_id = "uuid" THEN r
    ELSE [Got(r, result_id) EXCEPT !.row = rows[result_id]]

\* POST /v1/explain/{result_id}/stream up to return EventSourceResponse(gen());
\* db_ok is whether the record store answers db.get
ExplainSingleStream(q, result_id, message, db_ok) ==
    LET r0  == [Idle EXCEPT !.kind = "single", !.result_ids = <<result_id>>,
                            !.message = message]
        r   == Fetched(r0, result_id, db)
        one == ResolveOne(result_id, db)
    IN /\ CanStart(q)
       /\ req' = [req EXCEPT ![q] =
            IF result_id # "uuid" /\ ~db_ok THEN Unavailable(Got(r0, result_id))
            ELSE IF ~one.found THEN Rejected(r, 404)
            ELSE IF IsRaise(one.bundle) THEN Crashed(r)
            ELSE [r EXCEPT !.pc = "opened",
                           !.bundles = <<WithMessage(one.bundle, message)>>,
                           !.status_values = <<one.status_value>>]]
       /\ UNCHANGED <<db, maxLive>>

\* POST /v1/explain/stream up to the loop over result_ids
ExplainStream(q, result_ids, message) ==
    LET r == [Idle EXCEPT !.kind = "batch", !.result_ids = result_ids,
                          !.message = message]
    IN /\ CanStart(q)
       /\ req' = [req EXCEPT ![q] =
            IF result_ids = << >> THEN Rejected(r, 400)
            ELSE [r EXCEPT !.pc = "resolving"]]
       /\ UNCHANGED <<db, maxLive>>

\* ExplainStreamLoop answering 404 for an identifier that does not resolve,
\* as the single handler does
ExplainStreamLoopStrict(q, db_ok) ==
    LET r0        == req[q]
        result_id == r0.result_ids[r0.idx]
        r         == Fetched(r0, result_id, db)
        one       == ResolveOne(result_id, db)
    IN /\ r0.pc = "resolving"
       /\ r0.idx <= Len(r0.result_ids)
       /\ req' = [req EXCEPT ![q] =
            IF result_id # "uuid" /\ ~db_ok THEN Unavailable(Got(r0, result_id))
            ELSE IF ~one.found THEN Rejected(r, 404)
            ELSE IF IsRaise(one.bundle) THEN Crashed(r)
            ELSE [r EXCEPT !.idx = r.idx + 1,
                           !.bundles = Append(r.bundles, one.bundle),
                           !.status_values = Append(r.status_values,
                                                    one.status_value)]]
       /\ UNCHANGED <<db, maxLive>>

\* ExplainStreamLoop appending a status for a dropped identifier too
ExplainStreamLoopMisaligned(q, db_ok) ==
    LET r0        == req[q]
        result_id == r0.result_ids[r0.idx]
        r         == Fetched(r0, result_id, db)
        one       == ResolveOne(result_id, db)
    IN /\ r0.pc = "resolving"
       /\ r0.idx <= Len(r0.result_ids)
       /\ req' = [req EXCEPT ![q] =
            IF result_id # "uuid" /\ ~db_ok THEN Unavailable(Got(r0, result_id))
            ELSE IF ~one.found
            THEN [r EXCEPT !.idx = r.idx + 1,
                           !.status_values = Append(r.status_values, None)]
            ELSE IF IsRaise(one.bundle) THEN Crashed(r)
            ELSE [r EXCEPT !.idx = r.idx + 1,
                           !.bundles = Append(r.bundles, one.bundle),
                           !.status_values = Append(r.status_values,
                                                    one.status_value)]]
       /\ UNCHANGED <<db, maxLive>>

\* one turn of the loop over payload.result_ids: the identifier at idx is
\* resolved and kept, or dropped; db_ok is whether the store answers db.get
ExplainStreamLoop(q, db_ok) ==
    LET r0        == req[q]
        result_id == r0.result_ids[r0.idx]
        r         == Fetched(r0, result_id, db)
        one       == ResolveOne(result_id, db)
    IN /\ r0.pc = "resolving"
       /\ r0.idx <= Len(r0.result_ids)
       /\ req' = [req EXCEPT ![q] =
            IF result_id # "uuid" /\ ~db_ok THEN Unavailable(Got(r0, result_id))
            ELSE IF ~one.found THEN [r EXCEPT !.idx = r.idx + 1]
            ELSE IF IsRaise(one.bundle) THEN Crashed(r)
            ELSE [r EXCEPT !.idx = r.idx + 1,
                           !.bundles = Append(r.bundles, one.bundle),
                           !.status_values = Append(r.status_values,
                                                    one.status_value)]]
       /\ UNCHANGED <<db, maxLive>>

\* POST /v1/explain/stream after the loop, up to
\* return EventSourceResponse(gen())
ExplainStreamOpen(q) ==
    LET r == req[q] IN
    /\ r.pc = "resolving"
    /\ r.idx > Len(r.result_ids)
    /\ req' = [req EXCEPT ![q] =
         IF r.bundles = << >> THEN Rejected(r, 404)
         ELSE [r EXCEPT !.pc = "opened",
                        !.bundles = [k \in 1..Len(r.bundles) |->
                                       WithMessage(r.bundles[k], r.message)]]]
    /\ UNCHANGED <<db, maxLive>>

\* ExplainMessageMultiStream without the test of payload.items
ExplainMessageMultiStreamNoCheck(q, message, items) ==
    LET r == [Idle EXCEPT !.kind = "message_multi", !.message = PyStr(message),
                          !.items = items]
    IN /\ CanStart(q)
       /\ req' = [req EXCEPT ![q] = [r EXCEPT !.pc = "opened"]]
       /\ UNCHANGED <<db, maxLive>>

\* POST /v1/message/explain/multi/stream up to
\* return EventSourceResponse(gen())
ExplainMessageMultiStream(q, message, items) ==
    LET r == [Idle EXCEPT !.kind = "message_multi", !.message = PyStr(message),
                          !.items = items]
    IN /\ CanStart(q)
       /\ req' = [req EXCEPT ![q] =
            IF items = << >> THEN Rejected(r, 400)
            ELSE [r EXCEPT !.pc = "opened"]]
       /\ UNCHANGED <<db, maxLive>>

-----------------------------------------------------------------------------
(* main.py: the event generators *)

\* the fields of a meta entry
MetaItem(bundle, status_value) ==
    [result_id |-> bundle.request_id,
     url |-> bundle.extracted_url,
     message |-> bundle.raw_text,
     risk_level |-> bundle.risk_level,
     risk_score |-> bundle.risk_score,
     screenshot |-> bundle.screenshot,
     status |-> status_value]

\* the fields of an evidence entry of the single stream
EvidenceItemOf(bundle) ==
    [coverage |-> bundle.coverage,
     limitations |-> bundle.limitations,
     evidence |-> bundle.evidence]

\* the fields of an evidence entry of the batch stream
BatchEvidenceItem(bundle) ==
    [result_id |-> bundle.request_id,
     coverage |-> bundle.coverage,
     limitations |-> bundle.limitations,
     evidence |-> bundle.evidence]

\* the meta event of a request
MetaEvent(r) ==
    IF r.kind = "single"
    THEN [event |-> "meta", data |-> MetaItem(r.bundles[1], r.status_values[1])]
    ELSE IF r.kind = "message_multi"
    THEN [event |-> "meta", data |-> [message |-> r.message.s, items |-> r.items]]
    ELSE [event |-> "meta",
          data |-> [items |-> [k \in 1..Len(r.bundles) |->
                                 MetaItem(r.bundles[k], r.status_values[k])]]]

\* the evidence event of a request
EvidenceEvent(r) ==
    IF r.kind = "single"
    THEN [event |-> "evidence", data |-> EvidenceItemOf(r.bundles[1])]
    ELSE [event |-> "evidence",
          data |-> [items |-> [k \in 1..Len(r.bundles) |->
                                 BatchEvidenceItem(r.bundles[k])]]]

\* DeltaEvents without the test of chunk.content
DeltaEventsAll(content) ==
    << [event |-> "delta", data |-> [text |-> content]] >>

\* what one chunk of llm.astream becomes: if chunk.content: yield it, and
\* the generator wraps it in a delta event
DeltaEvents(content) ==
    IF content # "" THEN << [event |-> "delta", data |-> [text |-> content]] >>
    ELSE << >>

DoneEvent == [event |-> "done", data |-> [status |-> "OK"]]

Streaming(r) == r.pc \in {"opened", "meta", "evidence", "generating"}

\* the positions of the events of a given name
Positions(events, name) == {k \in 1..Len(events) : events[k].event = name}

\* the delta texts of a response, concatenated in order
RECURSIVE DeltaText(_)
DeltaText(events) ==
    IF events = << >> THEN ""
    ELSE (IF Head(events).event = "delta" THEN Head(events).data.text ELSE "")
         \o DeltaText(Tail(events))

\* gen(): yield the meta event
GenYieldMeta(q) ==
    LET r == req[q] IN
    /\ r.pc = "opened"
    /\ req' = [req EXCEPT ![q] =
         [r EXCEPT !.pc = "meta", !.events = Append(r.events, MetaEvent(r))]]
    /\ UNCHANGED <<db, maxLive>>

\* GenYieldEvidence without its yield: gen() goes on to the explanation
GenSkipEvidence(q) ==
    LET r == req[q] IN
    /\ r.pc = "meta"
    /\ r.kind \in {"single", "batch"}
    /\ req' = [req EXCEPT ![q] = [r EXCEPT !.pc = "evidence"]]
    /\ UNCHANGED <<db, maxLive>>

\* gen() of the explain-by-identifier handlers: yield the evidence event
GenYieldEvidence(q) ==
    LET r == req[q] IN
    /\ r.pc = "meta"
    /\ r.kind \in {"single", "batch"}
    /\ req' = [req EXCEPT ![q] =
         [r EXCEPT !.pc = "evidence",
                   !.events = Append(r.events, EvidenceEvent(r))]]
    /\ UNCHANGED <<db, maxLive>>

\* gen() enters async for token in stream_explanation(bundles): the payload
\* is built and handed to llm.astream
StreamExplanation(q) ==
    LET r == req[q] IN
    /\ r.pc = "evidence"
    /\ req' = [req EXCEPT ![q] =
         [r EXCEPT !.pc = "generating",
                   !.prompts = Append(r.prompts, LlmPayload(r.bundles))]]
    /\ UNCHANGED <<db, maxLive>>

\* gen() of the multi-link message handler enters async for token in
\* stream_message_safety_explanation_multi(message, items) after the meta
\* event: the payload is built and handed to llm.astream
StreamMessageSafetyExplanationMulti(q) ==
    LET r == req[q] IN
    /\ r.pc = "meta"
    /\ r.kind = "message_multi"
    /\ req' = [req EXCEPT ![q] =
         [r EXCEPT !.pc = "generating",
                   !.prompts = Append(r.prompts,
                                  [message |-> r.message.s, items |-> r.items])]]
    /\ UNCHANGED <<db, maxLive>>

\* the engine produces one chunk
LlmChunk(q, content) ==
    LET r == req[q] IN
    /\ r.pc = "generating"
    /\ r.chunks < MaxChunks
    /\ req' = [req EXCEPT ![q] =
         [r EXCEPT !.chunks = r.chunks + 1,
                   !.fragments = Append(r.fragments, content),
                   !.events = r.events \o DeltaEvents(content)]]
    /\ UNCHANGED <<db, maxLive>>

\* LlmEnd writing the streamed text to the first record of the request,
\* whatever the request
LlmEndPersist(q) ==
    LET r  == req[q]
        id == r.result_ids[1]
    IN /\ r.pc = "generating"
       /\ req' = [req EXCEPT ![q] =
            [r EXCEPT !.pc = "done", !.events = Append(r.events, DoneEvent)]]
       /\ db' = IF id \in PersistedIds /\ db[id].t = "row"
                THEN [db EXCEPT ![id].llm_summary =
                                   PyStr("text of the stream")]
                ELSE db
       /\ UNCHANGED maxLive

\* LlmEnd with done yielded only after some delta
LlmEndIfText(q) ==
    LET r == req[q] IN
    /\ r.pc = "generating"
    /\ req' = [req EXCEPT ![q] =
         [r EXCEPT !.pc = "done",
                   !.events = IF r.events[Len(r.events)].event = "delta"
                              THEN Append(r.events, DoneEvent)
                              ELSE r.events]]
    /\ UNCHANGED <<db, maxLive>>

\* the engine's stream ends: gen() leaves the loop and yields done
LlmEnd(q) ==
    LET r == req[q] IN
    /\ r.pc = "generating"
    /\ req' = [req EXCEPT ![q] =
         [r EXCEPT !.pc = "done", !.events = Append(r.events, DoneEvent)]]
    /\ UNCHANGED <<db, maxLive>>

\* LlmFails with gen() catching the exception and yielding done
LlmFailsYieldDone(q) ==
    LET r == req[q] IN
    /\ r.pc = "generating"
    /\ req' = [req EXCEPT ![q] =
         [r EXCEPT !.pc = "aborted", !.events = Append(r.events, DoneEvent)]]
    /\ UNCHANGED <<db, maxLive>>

\* llm.astream raises: the exception leaves gen() and the stream ends
LlmFails(q) ==
    LET r == req[q] IN
    /\ r.pc = "generating"
    /\ req' = [req EXCEPT ![q] = [r EXCEPT !.pc = "aborted"]]
    /\ UNCHANGED <<db, maxLive>>

\* Disconnect with gen() saving the text streamed so far as the record's
\* explanation when it is closed
DisconnectPersist(q) ==
    LET r  == req[q]
        id == r.result_ids[1]
    IN /\ Streaming(r)
       /\ req' = [req EXCEPT ![q] = [r EXCEPT !.pc = "cancelled"]]
       /\ db' = IF r.kind = "single" /\ id \in PersistedIds /\ db[id].t = "row"
                THEN [db EXCEPT ![id].llm_summary = PyStr(DeltaText(r.events))]
                ELSE db
       /\ UNCHANGED maxLive

\* the caller disconnects: the response task is cancelled and gen() closed
Disconnect(q) ==
    LET r == req[q] IN
    /\ Streaming(r)
    /\ req' = [req EXCEPT ![q] = [r EXCEPT !.pc = "cancelled"]]
    /\ UNCHANGED <<db, maxLive>>

\* the response is over and the slot is free for the next request
Close(q) ==
    /\ req[q].pc \in {"done", "error", "aborted", "cancelled"}
    /\ req' = [req EXCEPT ![q] = Idle]
    /\ UNCHANGED <<db, maxLive>>

Next ==
    \/ \E q \in Reqs, result_id \in ResultIds, message \in Messages,
          db_ok \in BOOLEAN :
          ExplainSingleStream(q, result_id, message, db_ok)
    \/ \E q \in Reqs, result_ids \in IdLists(MaxIds), message \in Messages :
          ExplainStream(q, result_ids, message)
    \/ \E q \in Reqs, db_ok \in BOOLEAN : ExplainStreamLoop(q, db_ok)
    \/ \E q \in Reqs : ExplainStreamOpen(q)
    \/ \E q \in Reqs : GenYieldMeta(q)
    \/ \E q \in Reqs : GenYieldEvidence(q)
    \/ \E q \in Reqs : StreamExplanation(q)
    \/ \E q \in Reqs, content \in ChunkContents : LlmChunk(q, content)
    \/ \E q \in Reqs : LlmEnd(q)
    \/ \E q \in Reqs : LlmFails(q)
    \/ \E q \in Reqs : Disconnect(q)
    \/ \E q \in Reqs : Close(q)

Spec == Init /\ [][Next]_vars

\* two requests handled at the same time (each has its own session from
\* get_db and its own gen()), over records that hold no explanation yet
InitConc ==
    /\ db = [id \in PersistedIds |->
               IF id = "r1" THEN Row(PyStr("DONE"), DetailsLow, None, None)
               ELSE Row(PyStr("QUEUED"), DetailsMedium, None, None)]
    /\ req = [q \in Reqs |-> Idle]
    /\ maxLive = 2

\* the steps of single-result requests without override for persisted
\* records, up to the end of their streams
NextConc ==
    \/ \E q \in Reqs, result_id \in PersistedIds :
          ExplainSingleStream(q, result_id, None, TRUE)
    \/ \E q \in Reqs : GenYieldMeta(q)
    \/ \E q \in Reqs : GenYieldEvidence(q)
    \/ \E q \in Reqs : StreamExplanation(q)
    \/ \E q \in Reqs, content \in ChunkContents : LlmChunk(q, content)
    \/ \E q \in Reqs : LlmEnd(q)
    \/ \E q \in Reqs : Close(q)

SpecConc == InitConc /\ [][NextConc]_vars

\* the single, batch and multi-link message handlers, one request at a
\* time, over two records with details
InitMulti ==
    /\ db = [id \in PersistedIds |->
               IF id = "r1" THEN Row(PyStr("DONE"), DetailsLow, None, None)
               ELSE Row(PyStr("QUEUED"), DetailsMedium, None, None)]
    /\ req = [q \in Reqs |-> Idle]
    /\ maxLive = 1

NextMulti ==
    \/ \E q \in Reqs, result_id \in ResultIds, message \in Messages,
          db_ok \in BOOLEAN :
          ExplainSingleStream(q, result_id, message, db_ok)
    \/ \E q \in Reqs, result_ids \in IdLists(MaxIds), message \in Messages :
          ExplainStream(q, result_ids, message)
    \/ \E q \in Reqs, db_ok \in BOOLEAN : ExplainStreamLoop(q, db_ok)
    \/ \E q \in Reqs : ExplainStreamOpen(q)
    \/ \E q \in Reqs, message \in MessageTexts, items \in ItemLists(MaxItems) :
          ExplainMessageMultiStream(q, message, items)
    \/ \E q \in Reqs : GenYieldMeta(q)
    \/ \E q \in Reqs : GenYieldEvidence(q)
    \/ \E q \in Reqs : StreamExplanation(q)
    \/ \E q \in Reqs : StreamMessageSafetyExplanationMulti(q)
    \/ \E q \in Reqs, content \in ChunkContents : LlmChunk(q, content)
    \/ \E q \in Reqs : LlmEnd(q)
    \/ \E q \in Reqs : LlmFails(q)
    \/ \E q \in Reqs : Disconnect(q)
    \/ \E q \in Reqs : Close(q)

SpecMulti == InitMulti /\ [][NextMulti]_vars

\* the longest redirect chain of a stored record
MaxChain == 10

\* hop k of a chain: the hops of one chain all differ
Hop(k) ==
    PyDict([type |-> PyStr("HTTP"),
            from |-> PyStr("http://h" \o NatToStr(k) \o ".example"),
            to |-> PyStr("http://h" \o NatToStr(k + 1) \o ".example")])

\* the details column of a record whose link went through n hops
ChainPayload(n) ==
    PyDict([
      summary |-> PyDict([risk_level |-> PyStr("LOW"), risk_score |-> PyInt(12)]),
      target_url |-> PyStr("http://h1.example"),
      details |-> PyDict([redirect_chain |-> PyList([k \in 1..n |-> Hop(k)])])])

\* record r1 holds a chain of any length up to MaxChain, r2 has no row
InitChain ==
    /\ \E n \in 0..MaxChain :
          db = [id \in PersistedIds |->
                  IF id = "r1" THEN Row(PyStr("DONE"), ChainPayload(n), None, None)
                  ELSE NoRow]
    /\ req = [q \in Reqs |-> Idle]
    /\ maxLive = 1

\* a single-result request for r1, with or without override, to its end
NextChain ==
    \/ \E q \in Reqs, message \in Messages :
          ExplainSingleStream(q, "r1", message, TRUE)
    \/ \E q \in Reqs : GenYieldMeta(q)
    \/ \E q \in Reqs : GenYieldEvidence(q)
    \/ \E q \in Reqs : StreamExplanation(q)
    \/ \E q \in Reqs, content \in ChunkContents : LlmChunk(q, content)
    \/ \E q \in Reqs : LlmEnd(q)
    \/ \E q \in Reqs : Close(q)

SpecChain == InitChain /\ [][NextChain]_vars

-----------------------------------------------------------------------------
(* The extractor over the payloads a stored record may hold *)

ApkMime == "application/vnd.android.package-archive"

Flags == {PyBool(TRUE), PyBool(FALSE)}

\* download_attempt.filename
Filenames == {PyStr("Update.APK"), PyStr("update.bin")}

\* download_attempt.mime_type
MimeTypes == {None, PyStr(ApkMime)}

\* domain_analysis.domain_age_days: absent, text, a bool, and numbers below,
\* at and above the threshold of 7, whole and with a fraction
AgeDays ==
    {None, PyStr("3"), PyBool(TRUE), PyInt(-3), PyInt(0), PyInt(7), PyInt(8),
     PyFloat(69), PyFloat(75)}

\* the signals the seven rules read, each with its values
Signals ==
    [attempted : Flags, filename : Filenames, mime_type : MimeTypes,
     credential_exfiltration : Flags, external_post_on_input : Flags,
     keystroke_capture : Flags, ui_deception : Flags,
     brand_impersonation : Flags, domain_age_days : AgeDays,
     suspicious : Flags]

\* the details column of a record whose analysis found the signals sig
PayloadOf(sig) ==
    PyDict([
      summary |-> PyDict([risk_level |-> PyStr("HIGH"), risk_score |-> PyInt(87)]),
      target_url |-> PyStr("http://a.example"),
      details |-> PyDict([
          download_attempt |-> PyDict([
              attempted |-> sig.attempted,
              filename |-> sig.filename,
              mime_type |-> sig.mime_type]),
          technical_findings |-> PyDict([
              credential_exfiltration |-> sig.credential_exfiltration,
              ui_deception |-> sig.ui_deception,
              brand_impersonation |-> sig.brand_impersonation]),
          behavioral_findings |-> PyDict([
              external_post_on_input |-> sig.external_post_on_input,
              keystroke_capture |-> sig.keystroke_capture]),
          domain_analysis |-> PyDict([domain_age_days |-> sig.domain_age_days]),
          certificate_analysis |-> PyDict([suspicious |-> sig.suspicious])])])

\* records with a field of the wrong type: a summary that is text, findings
\* that are a list, limitations that are numbers, a redirect chain that is
\* text, a screenshot with a number in it
MalformedPayloads ==
    { DetailsBroken,
      PyDict([target_url |-> PyStr("http://a.example"),
              details |-> PyDict([
                  technical_findings |-> PyList(<<PyStr("ui_deception")>>)])]),
      PyDict([target_url |-> PyStr("http://a.example"),
              confidence |-> PyDict([
                  limitations |-> PyList(<<PyInt(1), PyInt(2)>>)])]),
      PyDict([target_url |-> PyStr("http://a.example"),
              details |-> PyDict([redirect_chain |-> PyStr("a>b")])]),
      PyDict([target_url |-> PyStr("http://a.example"),
              screenshot |-> PyDict([key |-> PyStr("s.png"),
                                     width |-> PyInt(800)])]) }

ExtractPayloads == { PayloadOf(sig) : sig \in Signals } \cup MalformedPayloads

\* record r1 holds any of the payloads, r2 has no row
InitExtract ==
    /\ \E payload \in ExtractPayloads :
          db = [id \in PersistedIds |->
                  IF id = "r1" THEN Row(PyStr("DONE"), payload, None, None)
                  ELSE NoRow]
    /\ req = [q \in Reqs |-> Idle]
    /\ maxLive = 1

\* a single-result request for r1, up to its evidence event
NextExtract ==
    \/ \E q \in Reqs : ExplainSingleStream(q, "r1", None, TRUE)
    \/ \E q \in Reqs : GenYieldMeta(q)
    \/ \E q \in Reqs : GenYieldEvidence(q)

SpecExtract == InitExtract /\ [][NextExtract]_vars

-----------------------------------------------------------------------------
(* Properties *)

\* C1: in a completed stream of either explain-by-identifier handler the
\* meta event is the first event and the only meta, the evidence event is the
\* second and the only evidence, every event between it and the last is a
\* delta, and done is the last event; in no state of a response does an event
\* follow a done event.
C1_EventOrder ==
    \A q \in Reqs :
        LET r == req[q]
            n == Len(r.events)
        IN /\ \A k \in Positions(r.events, "done") : k = n
           /\ r.pc = "done" =>
                /\ n >= 3
                /\ Positions(r.events, "meta") = {1}
                /\ Positions(r.events, "evidence") = {2}
                /\ Positions(r.events, "delta") = 3..(n - 1)
                /\ Positions(r.events, "done") = {n}

\* a batch stream over two bundles has completed with two deltas
C1_Witness ==
    \E q \in Reqs :
        /\ req[q].pc = "done"
        /\ req[q].kind = "batch"
        /\ Len(req[q].bundles) = 2
        /\ Cardinality(Positions(req[q].events, "delta")) = 2

\* C7: a stream in its terminal OK state holds exactly one done event, also
\* when the engine produced no fragment, and then the stream is exactly
\* meta, evidence, done; a stream in any other state holds no done event.
C7_DoneExactlyOnce ==
    \A q \in Reqs :
        LET r == req[q] IN
        /\ r.pc = "done" => Cardinality(Positions(r.events, "done")) = 1
        /\ r.pc # "done" => Positions(r.events, "done") = {}
        /\ (r.pc = "done" /\ Positions(r.events, "delta") = {}) =>
              [k \in 1..Len(r.events) |-> r.events[k].event]
                 = <<"meta", "evidence", "done">>

\* a stream completed although every chunk of the engine was empty
C7_Witness ==
    \E q \in Reqs :
        /\ req[q].pc = "done"
        /\ req[q].chunks = MaxChunks
        /\ Positions(req[q].events, "delta") = {}

\* an identifier with a record to explain: the fixture, or a stored row
\* whose details are neither null nor empty
HasDetails(id) ==
    \/ id = "uuid"
    \/ /\ db[id].t = "row"
       /\ db[id].details \notin {None, EmptyDict, EmptyList, PyStr("")}

\* the request reached the record store and the store answered
Answered(r) == r.pc \notin {"idle", "resolving"} /\ ~r.unavailable

\* C8: a single-result request whose identifier has no row, or whose row has
\* null or empty details, ends with status 404 once the store has answered;
\* it has sent no event and has not called the generation engine.
C8_SingleNotFound ==
    \A q \in Reqs :
        LET r == req[q] IN
        (r.kind = "single" /\ ~HasDetails(r.result_ids[1])) =>
            /\ r.pc = "error"
            /\ ~r.unavailable => r.code = 404
            /\ r.events = << >>
            /\ r.prompts = << >>

\* a single request for a row with empty details was answered 404
C8_Witness ==
    \E q \in Reqs :
        /\ req[q].kind = "single"
        /\ req[q].row.t = "row"
        /\ req[q].row.details = EmptyDict
        /\ req[q].pc = "error"
        /\ req[q].code = 404

\* the extractor builds a bundle for the record of an identifier
Extractable(id) ==
    IF id = "uuid" THEN ~IsRaise(BuildEvidenceBundle(MockLog))
    ELSE ~IsRaise(BuildEvidenceBundleFromDetails(id, db[id].details))

\* C9: a batch request with a non-empty list, once the loop is over and the
\* store has answered, is answered 404 exactly when no identifier of the list
\* resolves, and then no event was sent and the engine was not called; an
\* identifier that does not resolve causes no error: when some identifier
\* resolves and the extractor accepts every resolving record, the stream
\* opens.
C9_BatchPartialFailure ==
    \A q \in Reqs :
        LET r   == req[q]
            ids == r.result_ids
        IN (r.kind = "batch" /\ ids # << >> /\ Answered(r)) =>
            /\ (r.pc = "error" /\ r.code = 404)
                  <=> (\A k \in 1..Len(ids) : ~HasDetails(ids[k]))
            /\ (r.pc = "error" /\ r.code = 404) =>
                  (r.events = << >> /\ r.prompts = << >>)
            /\ ( /\ \E k \in 1..Len(ids) : HasDetails(ids[k])
                 /\ \A k \in 1..Len(ids) :
                       HasDetails(ids[k]) => Extractable(ids[k]) )
               => r.pc # "error"

\* a batch of an unresolvable identifier followed by a resolvable one completed
C9_Witness ==
    \E q \in Reqs :
        /\ req[q].kind = "batch"
        /\ Len(req[q].result_ids) = 2
        /\ ~HasDetails(req[q].result_ids[1])
        /\ HasDetails(req[q].result_ids[2])
        /\ req[q].pc = "done"

\* the identifiers of a list that resolve, in the order of the list
Surviving(ids) == SelectSeq(ids, LAMBDA id : HasDetails(id))

\* the status of the record of an identifier (the fixture log has none)
StatusOf(id) == IF id = "uuid" THEN None ELSE db[id].status

CachedBefore(r) == r.row.t = "row" /\ r.row.llm_summary # None

\* C2 (as claimed): a completed single-result stream has made no call to the
\* generation engine if and only if the fetched record held an explanation
\* and the request carried no message override.
C2_CacheHitIff ==
    \A q \in Reqs :
        LET r == req[q] IN
        (r.kind = "single" /\ r.pc = "done") =>
            ( r.prompts = << >>
                <=> (CachedBefore(r) /\ ~Truthy(r.message)) )

\* C3 (as claimed): a completed single-result stream without override for a
\* record that held an explanation delivered exactly that text in its deltas
\* and made no call to the generation engine.
C3_Idempotent ==
    \A q \in Reqs :
        LET r == req[q] IN
        (r.kind = "single" /\ r.pc = "done" /\ CachedBefore(r)
            /\ ~Truthy(r.message)) =>
            /\ DeltaText(r.events) = r.row.llm_summary.s
            /\ r.prompts = << >>

\* C4 (as claimed): when a single-result stream without override for a
\* persisted record that held no explanation has run generation and is done,
\* the record's llm_summary is the concatenation of the streamed delta texts,
\* and a message_text that was not empty is unchanged.
C4_Persisted ==
    \A q \in Reqs :
        LET r  == req[q]
            id == r.result_ids[1]
        IN (r.kind = "single" /\ id \in PersistedIds /\ r.pc = "done"
              /\ ~Truthy(r.message) /\ ~CachedBefore(r)
              /\ Len(r.prompts) = 1) =>
            /\ db[id].llm_summary = PyStr(DeltaText(r.events))
            /\ Truthy(r.row.message_text) =>
                  db[id].message_text = r.row.message_text

\* a request that must not write: a batch, one for the fixture, one with a
\* message override, or a stream completed without generation (a replay)
MustNotWrite(r) ==
    \/ r.kind = "batch"
    \/ \E k \in 1..Len(r.result_ids) : r.result_ids[k] = "uuid"
    \/ Truthy(r.message)
    \/ r.pc = "done" /\ r.prompts = << >>

\* C5: a step of a request changes the stored records only if the request is
\* none of: a batch, a request for the fixture, a request with a message
\* override, a replay; and only in the one step that completes its stream,
\* so a request writes at most once.
C5_WriteFrame ==
    [][\A q \in Reqs :
          (req'[q] # req[q] /\ db' # db) =>
              /\ ~MustNotWrite(req'[q])
              /\ req[q].pc # "done"
              /\ req'[q].pc = "done"]_vars

\* a stream with a message override for a persisted record without a stored
\* explanation completed with text
C5_Witness ==
    \E q \in Reqs :
        /\ req[q].kind = "single"
        /\ req[q].result_ids[1] \in PersistedIds
        /\ Truthy(req[q].message)
        /\ ~CachedBefore(req[q])
        /\ req[q].pc = "done"
        /\ DeltaText(req[q].events) # ""

\* the summary of the record an identifier names
SourceSummary(id) ==
    Get(IF id = "uuid" THEN MockLog ELSE db[id].details, "summary")

\* a value of the response equals a value of the record as it stands
Verbatim(level, score, id) ==
    LET lv == Get(SourceSummary(id), "risk_level")
        sc == Get(SourceSummary(id), "risk_score")
    IN /\ lv = PyStr(level)
       /\ sc.t \in {"int", "float"}
       /\ Tenths(sc) = score.x10

\* the risk values the extractor derives from the record of an identifier
Derived(level, score, id) ==
    LET lv == Get(SourceSummary(id), "risk_level")
        sc == Get(SourceSummary(id), "risk_score")
    IN /\ CASE lv.t = "str" /\ lv.s # "" -> level = lv.s
            [] lv.t = "int" /\ lv.i # 0  -> level = IntToStr(lv.i)
            [] OTHER                     -> level = "UNKNOWN"
       /\ CASE sc.t \in {"int", "float"} -> score.x10 = Tenths(sc)
            [] sc.t = "str" /\ ~IsRaise(ParseFloat(sc.s))
                                         -> score = ParseFloat(sc.s)
            [] OTHER                     -> score.x10 = 0

\* the entries of the meta events and of the engine payloads of a request,
\* each with its identifier, risk_level and risk_score
RiskEntries(r) ==
    { [id |-> r.events[k].data.result_id,
       level |-> r.events[k].data.risk_level,
       score |-> r.events[k].data.risk_score] :
         k \in {j \in Positions(r.events, "meta") : r.kind = "single"} }
    \cup
    { [id |-> r.events[k].data.items[i].result_id,
       level |-> r.events[k].data.items[i].risk_level,
       score |-> r.events[k].data.items[i].risk_score] :
         k \in {j \in Positions(r.events, "meta") : r.kind = "batch"},
         i \in 1..Len(r.bundles) }
    \cup
    { [id |-> r.prompts[k].items[i].result_id,
       level |-> r.prompts[k].items[i].summary.risk_level,
       score |-> r.prompts[k].items[i].summary.risk_score] :
         k \in 1..Len(r.prompts), i \in 1..Len(r.bundles) }

GeneratedForCache(r) ==
    /\ r.kind = "single"
    /\ r.result_ids[1] \in PersistedIds
    /\ ~Truthy(r.message)
    /\ ~CachedBefore(r)
    /\ r.pc = "done"

Cached(rows, id) == IF rows[id].t = "row" THEN rows[id].llm_summary ELSE None

\* C12: a step in which a caller disconnects leaves every stored record as
\* it was, and a request whose caller disconnected gets no further event,
\* chunk or engine call; a step changes a record's cached explanation only
\* when it completes a stream, and then to the whole text of that stream, so
\* no record ever holds a proper prefix of a generation.
C12_NoPartialCache ==
    [][ /\ \A q \in Reqs :
              /\ (req[q].pc # "cancelled" /\ req'[q].pc = "cancelled")
                    => db' = db
              /\ req[q].pc = "cancelled" => req'[q] \in {req[q], Idle}
        /\ \A id \in PersistedIds :
              Cached(db', id) # Cached(db, id) =>
                 \E q \in Reqs :
                    /\ req[q].pc = "generating"
                    /\ req'[q].pc = "done"
                    /\ Cached(db', id) = PyStr(DeltaText(req'[q].events))
      ]_vars

\* a caller disconnected from a stream without override for a persisted
\* record after a delta, and the record holds no explanation
C12_Witness ==
    \E q \in Reqs :
        /\ req[q].pc = "cancelled"
        /\ req[q].kind = "single"
        /\ req[q].result_ids[1] \in PersistedIds
        /\ ~Truthy(req[q].message)
        /\ DeltaText(req[q].events) # ""
        /\ Cached(db, req[q].result_ids[1]) = None

\* C13 (as claimed): when two requests without override for the same
\* persisted record, both started while it held no explanation, have both
\* finished, each has called the generation engine once and the record's
\* cached explanation is the whole text of one of the two streams, never
\* absent and never a mixture.
C13_LastWriteWins ==
    \A p, q \in Reqs :
        (p # q /\ GeneratedForCache(req[p]) /\ GeneratedForCache(req[q])
           /\ req[p].result_ids = req[q].result_ids) =>
            /\ Len(req[p].prompts) = 1
            /\ Len(req[q].prompts) = 1
            /\ Cached(db, req[p].result_ids[1])
                  \in {PyStr(DeltaText(req[p].events)),
                       PyStr(DeltaText(req[q].events))}

\* C14: the step in which the generation engine fails adds no event to the
\* stream and leaves the events sent before it, the stream then holds the
\* meta and evidence events but no done event, and no later step adds an
\* event to it or calls the engine again; a request whose record-store
\* fetch failed is answered with an error, has sent no event and has not
\* called the engine.
C14_FailureEndsStream ==
    [][ \A q \in Reqs :
          /\ (req[q].pc # "aborted" /\ req'[q].pc = "aborted") =>
                /\ req[q].pc = "generating"
                /\ req'[q].events = req[q].events
                /\ Len(req'[q].events) >= 2
                /\ Positions(req'[q].events, "done") = {}
          /\ req[q].pc = "aborted" => req'[q] \in {req[q], Idle}
          /\ req'[q].unavailable =>
                /\ req'[q].pc = "error"
                /\ req'[q].events = << >>
                /\ req'[q].prompts = << >>
      ]_vars

\* the engine failed after a delta was sent
C14_Witness ==
    \E q \in Reqs :
        /\ req[q].pc = "aborted"
        /\ Positions(req[q].events, "delta") # {}

\* the value a stored payload holds for a signal: payload.details[obj][key]
SignalIn(payload, obj, key) == Get(Get(Get(payload, "details"), obj), key)

\* a request for a stored row for which the extractor returned a bundle
Extracted(r) == r.kind = "single" /\ r.row.t = "row" /\ r.bundles # << >>

\* the evidence list of the bundle of a single-result request
EvidenceOf(r) == r.bundles[1].evidence

HasKey(evidence, key) == \E k \in 1..Len(evidence) : evidence[k].key = key

\* a filename that ends in .apk, in any case
IsApkName(v) == v.t = "str" /\ EndsWith(LowerStr(v.s), ".apk")

\* C15 (as claimed): the evidence of a bundle holds a download_apk item, of
\* severity HIGH, if and only if download_attempt.attempted is truthy and
\* the filename ends in .apk or the mime type is the Android package type.
C15_DownloadApkIff ==
    \A q \in Reqs :
        LET r   == req[q]
            att == SignalIn(r.row.details, "download_attempt", "attempted")
            fn  == SignalIn(r.row.details, "download_attempt", "filename")
            mt  == SignalIn(r.row.details, "download_attempt", "mime_type")
        IN Extracted(r) =>
            /\ HasKey(EvidenceOf(r), "download_apk")
                  <=> (Truthy(att) /\ (IsApkName(fn) \/ mt = PyStr(ApkMime)))
            /\ \A k \in 1..Len(EvidenceOf(r)) :
                  EvidenceOf(r)[k].key = "download_apk"
                     => EvidenceOf(r)[k].severity = "HIGH"

\* the message of the new_domain item for a whole number of days
NewDomainMessage(days) ==
    "The domain was created " \o IntToStr(days) \o " days ago, very recently."

\* C16 (as claimed): the evidence of a bundle holds a new_domain item if and
\* only if domain_age_days is an int or a float (not a bool) from 0 to 7;
\* and the day count in the item's message is the age truncated to an
\* integer.
C16_NewDomainIff ==
    \A q \in Reqs :
        LET r   == req[q]
            age == SignalIn(r.row.details, "domain_analysis", "domain_age_days")
        IN Extracted(r) =>
            /\ HasKey(EvidenceOf(r), "new_domain")
                  <=> ( /\ age.t \in {"int", "float"}
                        /\ Tenths(age) >= 0
                        /\ Tenths(age) <= 70 )
            /\ \A k \in 1..Len(EvidenceOf(r)) :
                  EvidenceOf(r)[k].key = "new_domain" =>
                     EvidenceOf(r)[k].message
                        = NewDomainMessage(TruncTenths(Tenths(age)))

\* the nine signals of the seven rules: where the payload holds each and the
\* key of the item its rule adds
FlipSignals ==
    { [obj |-> "download_attempt", key |-> "attempted", item |-> "download_apk"],
      [obj |-> "download_attempt", key |-> "filename", item |-> "download_apk"],
      [obj |-> "technical_findings", key |-> "credential_exfiltration",
       item |-> "credential_exfiltration"],
      [obj |-> "behavioral_findings", key |-> "external_post_on_input",
       item |-> "credential_exfiltration"],
      [obj |-> "behavioral_findings", key |-> "keystroke_capture",
       item |-> "keystroke_capture"],
      [obj |-> "technical_findings", key |-> "ui_deception",
       item |-> "ui_deception"],
      [obj |-> "technical_findings", key |-> "brand_impersonation",
       item |-> "brand_impersonation"],
      [obj |-> "domain_analysis", key |-> "domain_age_days",
       item |-> "new_domain"],
      [obj |-> "certificate_analysis", key |-> "suspicious",
       item |-> "cert_recent"] }

\* a signal's value flipped: a flag negated, a filename with and without
\* the .apk ending, an age from 0 to 7 days and one above 7; any other value
\* is left as it is
Flipped(v) ==
    CASE v.t = "bool" -> PyBool(~v.b)
      [] v = PyStr("Update.APK") -> PyStr("update.bin")
      [] v = PyStr("update.bin") -> PyStr("Update.APK")
      [] v.t \in {"int", "float"} ->
            IF Tenths(v) > 70 THEN PyInt(3)
            ELSE IF Tenths(v) >= 0 THEN PyInt(8) ELSE v
      [] OTHER -> v

\* the payload holds the signal f and its value can be flipped
CanFlip(payload, f) ==
    LET sub == Get(Get(payload, "details"), f.obj) IN
    /\ sub.t = "dict"
    /\ f.key \in DOMAIN sub.d
    /\ ~(f.key = "domain_age_days" /\ sub.d[f.key].t = "bool")
    /\ Flipped(sub.d[f.key]) # sub.d[f.key]

\* the payload with the signal f flipped and every other field as it is
FlipIn(payload, f) ==
    [payload EXCEPT !.d["details"].d[f.obj].d[f.key] = Flipped(@)]

\* the evidence the extractor builds for a payload
EvidenceFor(payload) == BuildEvidenceFromDetails(Get(payload, "details")).l

\* an evidence list without the items of one key
Without(evidence, key) == SelectSeq(evidence, LAMBDA e : e.key # key)

\* the other signal of the signal's rule lets the flip decide the rule
Decisive(payload, f) ==
    CASE f.key = "attempted" ->
            IsApkName(SignalIn(payload, "download_attempt", "filename"))
      [] f.key = "filename" ->
            Truthy(SignalIn(payload, "download_attempt", "attempted"))
      [] f.key = "credential_exfiltration" ->
            ~Truthy(SignalIn(payload, "behavioral_findings",
                             "external_post_on_input"))
      [] f.key = "external_post_on_input" ->
            ~Truthy(SignalIn(payload, "technical_findings",
                             "credential_exfiltration"))
      [] OTHER -> TRUE

C18_ExtractionTotal ==
    \A q \in Reqs :
        LET r == req[q] IN
        (r.kind = "single" /\ r.row.t = "row" /\ Truthy(r.row.details)) =>
            /\ r.pc # "error"
            /\ Len(r.bundles) = 1
            /\ r.bundles[1].t = "bundle"

\* the keys of the seven rules in the order of the rule table, and the
\* severity of each
RuleOrder ==
    <<"download_apk", "credential_exfiltration", "keystroke_capture",
      "ui_deception", "brand_impersonation", "new_domain", "cert_recent">>

RuleSeverity ==
    <<"HIGH", "HIGH", "HIGH", "MEDIUM", "MEDIUM", "MEDIUM", "LOW">>

\* the place of a key in the rule table, 0 for any other key
RuleIndex(key) ==
    IF \E i \in 1..Len(RuleOrder) : RuleOrder[i] = key
    THEN CHOOSE i \in 1..Len(RuleOrder) : RuleOrder[i] = key
    ELSE 0

\* an evidence list whose items follow the rule table: every key is one of
\* the seven, the places of the keys strictly increase, so no key occurs
\* twice, and every item has the severity of its rule
InRuleOrder(evidence) ==
    /\ \A k \in 1..Len(evidence) :
          /\ RuleIndex(evidence[k].key) # 0
          /\ evidence[k].severity = RuleSeverity[RuleIndex(evidence[k].key)]
    /\ \A j, k \in 1..Len(evidence) :
          j < k => RuleIndex(evidence[j].key) < RuleIndex(evidence[k].key)

\* C19: the evidence list of every bundle a request holds, and of every
\* evidence event it has sent, holds each key at most once, in the order
\* download_apk, credential_exfiltration, keystroke_capture, ui_deception,
\* brand_impersonation, new_domain, cert_recent, each item with the severity
\* of its rule.
C19_RuleOrder ==
    \A q \in Reqs :
        LET r == req[q] IN
        /\ \A k \in 1..Len(r.bundles) : InRuleOrder(r.bundles[k].evidence)
        /\ \A k \in Positions(r.events, "evidence") :
              r.kind = "single" => InRuleOrder(r.events[k].data.evidence)

\* the evidence event was sent for a record on which both signals of the
\* credential rule are set and the rules before and after it fire
C19_Witness ==
    \E q \in Reqs :
        LET r == req[q] IN
        /\ Extracted(r)
        /\ Positions(r.events, "evidence") # {}
        /\ Truthy(SignalIn(r.row.details, "technical_findings",
                            "credential_exfiltration"))
        /\ Truthy(SignalIn(r.row.details, "behavioral_findings",
                            "external_post_on_input"))
        /\ [k \in 1..Len(EvidenceOf(r)) |-> EvidenceOf(r)[k].key]
              = <<"download_apk", "credential_exfiltration", "new_domain",
                  "cert_recent">>

\* the texts of the delta events of a response, in order
DeltaTexts(events) ==
    LET ds == SelectSeq(events, LAMBDA e : e.event = "delta")
    IN [k \in 1..Len(ds) |-> ds[k].data.text]

\* C20 (as claimed): a completed single-result stream without override for
\* a record that held an explanation carries that text in its deltas, cut
\* into consecutive chunks of 20 characters, the last of 1 to 20, between
\* the meta and evidence events and the done event.
C20_ReplayChunks ==
    \A q \in Reqs :
        LET r      == req[q]
            texts  == DeltaTexts(r.events)
            cached == r.row.llm_summary.s
        IN (r.kind = "single" /\ r.pc = "done" /\ CachedBefore(r)
              /\ ~Truthy(r.message)) =>
            /\ \A k \in 1..Len(texts) :
                  /\ Len(texts[k]) >= 1
                  /\ Len(texts[k]) <= 20
                  /\ k < Len(texts) => Len(texts[k]) = 20
                  /\ texts[k] = SubSeq(cached, 20 * (k - 1) + 1,
                                       20 * (k - 1) + Len(texts[k]))
            /\ DeltaText(r.events) = cached
            /\ r.events[1].event = "meta"
            /\ r.events[2].event = "evidence"
            /\ r.events[Len(r.events)] = DoneEvent

\* C21: a batch request with an empty result_ids list and a multi-link
\* message request with an empty items list are answered with status 400;
\* they have sent no event, passed no identifier to db.get and made no call
\* to the generation engine.
C21_BadRequest ==
    \A q \in Reqs :
        LET r == req[q] IN
        ( \/ r.kind = "batch" /\ r.result_ids = << >>
          \/ r.kind = "message_multi" /\ r.items = << >> ) =>
            /\ r.pc = "error"
            /\ r.code = 400
            /\ r.events = << >>
            /\ r.gets = << >>
            /\ r.prompts = << >>

\* a multi-link message request with a message and no item was answered 400
C21_Witness ==
    \E q \in Reqs :
        /\ req[q].kind = "message_multi"
        /\ req[q].message = PyStr("hi")
        /\ req[q].items = << >>
        /\ req[q].pc = "error"
        /\ req[q].code = 400

\* the redirect chain of the record fetched for a request, as stored
StoredChain(r) == Get(Get(r.row.details, "details"), "redirect_chain")

\* C22: the redirect chain of the item sent to the generation engine holds
\* the first 8 hops of the stored chain, or all of them when there are fewer,
\* in their order; the bundle holds the whole chain, before and after the
\* call of the engine.
C22_RedirectTruncation ==
    \A q \in Reqs :
        LET r == req[q] IN
        (r.kind = "single" /\ r.row.t = "row" /\ r.bundles # << >>
            /\ StoredChain(r).t = "list") =>
            LET chain == StoredChain(r).l
                n     == Len(chain)
            IN /\ r.bundles[1].redirect_chain = chain
               /\ \A k \in 1..Len(r.prompts) :
                     LET sent == r.prompts[k].items[1].details.redirect_chain
                     IN /\ Len(sent) = (IF n < 8 THEN n ELSE 8)
                        /\ \A i \in 1..Len(sent) : sent[i] = chain[i]

\* the engine was called for a record whose chain has more than 8 hops
C22_Witness ==
    \E q \in Reqs :
        LET r == req[q] IN
        /\ r.kind = "single"
        /\ r.row.t = "row"
        /\ r.prompts # << >>
        /\ StoredChain(r).t = "list"
        /\ Len(StoredChain(r).l) > 8
        /\ Len(r.bundles[1].redirect_chain) > 8

\* an evidence list holds an item of a key with a severity
HasItem(evidence, key, severity) ==
    \E k \in 1..Len(evidence) :
        evidence[k].key = key /\ evidence[k].severity = severity

\* C23: a single-result request for the fixture identifier "uuid" resolves,
\* and the bundle of the fixture, in a single-result or a batch request, has
\* risk_level HIGH and risk_score 87 and its evidence holds download_apk,
\* credential_exfiltration and keystroke_capture with severity HIGH,
\* new_domain with severity MEDIUM and cert_recent with severity LOW.
C23_FixtureBundle ==
    \A q \in Reqs :
        LET r == req[q] IN
        /\ (r.kind = "single" /\ r.result_ids = <<"uuid">>) =>
              (r.pc # "error" /\ Len(r.bundles) = 1)
        /\ \A k \in 1..Len(r.bundles) :
              r.bundles[k].request_id = "uuid" =>
                 /\ r.bundles[k].risk_level = "HIGH"
                 /\ r.bundles[k].risk_score = PyFloat(870)
                 /\ HasItem(r.bundles[k].evidence, "download_apk", "HIGH")
                 /\ HasItem(r.bundles[k].evidence, "credential_exfiltration", "HIGH")
                 /\ HasItem(r.bundles[k].evidence, "keystroke_capture", "HIGH")
                 /\ HasItem(r.bundles[k].evidence, "new_domain", "MEDIUM")
                 /\ HasItem(r.bundles[k].evidence, "cert_recent", "LOW")

\* the evidence event of a single-result request for the fixture was sent
C23_Witness ==
    \E q \in Reqs :
        /\ req[q].kind = "single"
        /\ req[q].result_ids = <<"uuid">>
        /\ req[q].pc = "evidence"
        /\ Len(req[q].bundles[1].evidence) = 7

\* the request names the fixture identifier
NamesFixture(r) == \E k \in 1..Len(r.result_ids) : r.result_ids[k] = "uuid"

\* C24: a step of a request that names the fixture identifier "uuid", alone
\* or in a batch, leaves the stored records as they are; the request never
\* passes "uuid" to db.get, a single-result request for it passes nothing,
\* and its bundle for "uuid" is the one built from the built-in fixture,
\* with the message override when there is one.
C24_FixtureBypassesStore ==
    [][ \A q \in Reqs :
          LET r == req'[q] IN
          (r # req[q] /\ NamesFixture(r)) =>
              /\ db' = db
              /\ \A k \in 1..Len(r.gets) : r.gets[k] # "uuid"
              /\ r.kind = "single" => r.gets = << >>
              /\ \A k \in 1..Len(r.bundles) :
                    r.bundles[k].request_id = "uuid" =>
                       [r.bundles[k] EXCEPT !.raw_text = "..."]
                          = BuildEvidenceBundle(MockLog)
      ]_vars

\* a batch of the fixture and a stored record completed after one db.get
C24_Witness ==
    \E q \in Reqs :
        /\ req[q].kind = "batch"
        /\ req[q].result_ids = <<"uuid", "r1">>
        /\ req[q].pc = "done"
        /\ Len(req[q].bundles) = 2
        /\ req[q].gets = <<"r1">>

\* C25: the texts of the delta events of a response are the contents of the
\* engine's chunks without the empty ones, in the engine's order, one event
\* per content, at every point of the stream; no delta event has an empty
\* text.
C25_DeltasAreFragments ==
    \A q \in Reqs :
        LET r == req[q] IN
        /\ DeltaTexts(r.events) = SelectSeq(r.fragments, LAMBDA f : f # "")
        /\ \A k \in Positions(r.events, "delta") : r.events[k].data.text # ""

\* a stream completed whose chunks include an empty one and the content "b"
C25_Witness ==
    \E q \in Reqs :
        /\ req[q].pc = "done"
        /\ Len(req[q].fragments) = MaxChunks
        /\ \E k \in 1..Len(req[q].fragments) : req[q].fragments[k] = ""
        /\ \E k \in 1..Len(req[q].fragments) : req[q].fragments[k] = "b"
        /\ DeltaTexts(req[q].events) # << >>

\* the bundle the extractor builds for the record of an identifier
ExtractedBundle(id) ==
    IF id = "uuid" THEN BuildEvidenceBundle(MockLog)
    ELSE BuildEvidenceBundleFromDetails(id, db[id].details)

\* the handler of the request has built its response stream
Opened(r) ==
    /\ r.kind \in {"single", "batch"}
    /\ r.pc \in {"opened", "meta", "evidence", "generating", "done",
                  "aborted", "cancelled"}

\* the entries of the meta event at position k of a response, in bundle order
MetaItemsOf(r, k) ==
    IF r.kind = "single" THEN << r.events[k].data >> ELSE r.events[k].data.items

\* C26: once the stream of a request is built, each of its bundles is the
\* bundle the extractor builds for its record, with raw_text replaced by the
\* request's message when that is a non-empty string and with nothing
\* replaced when the message is absent or empty; the message of every meta
\* entry and of every item sent to the engine is the raw_text of its bundle.
C26_OverrideOnlyMessage ==
    \A q \in Reqs :
        LET r == req[q] IN
        Opened(r) =>
            /\ \A k \in 1..Len(r.bundles) :
                  LET base == ExtractedBundle(r.bundles[k].request_id) IN
                  IF r.message.t = "str" /\ r.message.s # ""
                  THEN /\ r.bundles[k].raw_text = r.message.s
                       /\ [r.bundles[k] EXCEPT !.raw_text = base.raw_text] = base
                  ELSE r.bundles[k] = base
            /\ \A e \in Positions(r.events, "meta") :
                  \A k \in 1..Len(r.bundles) :
                     MetaItemsOf(r, e)[k].message = r.bundles[k].raw_text
            /\ \A p \in 1..Len(r.prompts) :
                  \A k \in 1..Len(r.bundles) :
                     r.prompts[p].items[k].message = r.bundles[k].raw_text

\* a batch of the fixture and a stored record with an override completed
C26_Witness ==
    \E q \in Reqs :
        /\ req[q].kind = "batch"
        /\ req[q].pc = "done"
        /\ req[q].message = PyStr("hi")
        /\ Len(req[q].bundles) = 2
        /\ req[q].bundles[1].request_id = "uuid"
        /\ req[q].bundles[2].request_id # "uuid"
        /\ req[q].bundles[1].raw_text = "hi"
        /\ req[q].bundles[2].raw_text = "hi"

=============================================================================
